---- MODULE Spec2Model ----
(***************************************************************************)
(* Model of src/sacred_scripts/run_schnetpack.py: the sacred experiment    *)
(* that creates the model directory, snapshots the configuration,          *)
(* resolves the normalisation statistics over the property map and builds  *)
(* the loss function.                                                      *)
(*                                                                         *)
(* Four specifications share the variables:                                *)
(*   SpecDir   create_modeldir called repeatedly on one filesystem,        *)
(*   Spec      one run of the train command, one captured function a step, *)
(*   SpecLoss  the loss function of build_loss applied to a batch,         *)
(*   SpecRace  two train runs on the same modeldir, one os call a step.    *)
(***************************************************************************)
EXTENDS Integers, Sequences, FiniteSets, TLC

VARIABLES
    modeldir,       \* config modeldir: None or a path
    overwrite,      \* config overwrite
    fs,             \* the path modeldir on disk: [exists, entries]
    hist,           \* SpecDir: <<outcome, fs>> after each create_modeldir call
    fs0,            \* SpecDir: the filesystem before the first call
    pc,             \* Spec: position of the train command
    property_map,   \* ordered mapping property -> target, as a sequence of items
    config,         \* _config: [mean, stddev]
    yaml,           \* content of modeldir/config.yaml, and how often it was written
    atomrefs,       \* the atomref table prepare_data returns
    loaderCalls,    \* the get_statistics calls made: <<[targets, extensive, atomrefs]>>
    resolved,       \* what stats returned: [mean, stddev]
    model_properties, \* the list train hands to build_model
    loss_tradeoff,  \* config loss_tradeoff
    batch,          \* SpecLoss/Spec: batch handed to loss_fn
    result,         \* SpecLoss/Spec: model output handed to loss_fn
    loss,           \* value loss_fn returned, and the terms it added
    rpc,            \* SpecRace: position of each run
    rcfg,           \* SpecRace: overwrite flag of each run
    owner,          \* SpecRace: which run's makedirs/save_config made what is on disk
    clobbered       \* SpecRace: runs whose directory was removed by the other run

vars == <<modeldir, overwrite, fs, hist, fs0, pc, property_map, config, yaml,
          atomrefs, loaderCalls, resolved, model_properties, loss_tradeoff,
          batch, result, loss, rpc, rcfg, owner, clobbered>>

dirVars   == <<hist, fs0>>
trainVars == <<pc, property_map, config, yaml, atomrefs, loaderCalls, resolved,
               model_properties>>
lossVars  == <<loss_tradeoff, batch, result, loss>>
raceVars  == <<rpc, rcfg, owner, clobbered>>

----------------------------------------------------------------------------
(* Values *)

None == "None"

ModelPath == "./models/debug"

\* Files a previous run may have left in the model directory.
OldFiles == {"config.yaml", "best_model", "log.csv"}

NoDir == [exists |-> FALSE, entries |-> {}]

Dir(files) == [exists |-> TRUE, entries |-> files]

FsStates == {NoDir} \cup {Dir(S) : S \in SUBSET OldFiles}

MaxCalls == 3

----------------------------------------------------------------------------
(* os / shutil primitives on the path modeldir *)

PathExists(f) == f.exists

Rmtree(f) == NoDir

Makedirs(f) == Dir({})

(* create_modeldir as one call: the outcome and the filesystem it leaves. *)
CreateModeldirMissingOverwriteCheck(md, ow, f) ==
    IF md = None
    THEN [outcome |-> "ValueError", fs |-> f]
    ELSE LET f1 == IF PathExists(f) /\ ow THEN Rmtree(f) ELSE f
             f2 == IF ~PathExists(f1) THEN Makedirs(f1) ELSE f1
         IN  [outcome |-> "ok", fs |-> f2]

CreateModeldirNoRmtree(md, ow, f) ==
    IF md = None
    THEN [outcome |-> "ValueError", fs |-> f]
    ELSE IF PathExists(f) /\ ~ow
    THEN [outcome |-> "ValueError", fs |-> f]
    ELSE LET f2 == IF ~PathExists(f) THEN Makedirs(f) ELSE f
         IN  [outcome |-> "ok", fs |-> f2]

CreateModeldirRmtreeFirst(md, ow, f) ==
    IF md = None
    THEN [outcome |-> "ValueError", fs |-> f]
    ELSE LET f1 == IF PathExists(f) THEN Rmtree(f) ELSE f
         IN  IF PathExists(f) /\ ~ow
             THEN [outcome |-> "ValueError", fs |-> f1]
             ELSE [outcome |-> "ok", fs |-> Makedirs(f1)]

CreateModeldir(md, ow, f) ==
    IF md = None
    THEN [outcome |-> "ValueError", fs |-> f]
    ELSE IF PathExists(f) /\ ~ow
    THEN [outcome |-> "ValueError", fs |-> f]
    ELSE LET f1 == IF PathExists(f) /\ ow THEN Rmtree(f) ELSE f
             f2 == IF ~PathExists(f1) THEN Makedirs(f1) ELSE f1
         IN  [outcome |-> "ok", fs |-> f2]

----------------------------------------------------------------------------
(* SpecDir: create_modeldir called up to MaxCalls times in succession *)

Idle == "idle"

dirIdle   == hist = <<>> /\ fs0 = NoDir
trainIdle == /\ pc = Idle /\ property_map = <<>> /\ config = Idle /\ yaml = Idle
             /\ atomrefs = Idle /\ loaderCalls = <<>> /\ resolved = Idle
             /\ model_properties = <<>>
lossIdle  == loss_tradeoff = Idle /\ batch = Idle /\ result = Idle /\ loss = Idle
raceIdle  == rpc = Idle /\ rcfg = Idle /\ owner = Idle /\ clobbered = {}

InitDir ==
    /\ modeldir \in {None, ModelPath}
    /\ overwrite \in BOOLEAN
    /\ fs \in FsStates
    /\ fs0 = fs
    /\ hist = <<>>
    /\ trainIdle /\ lossIdle /\ raceIdle

CallCreateModeldir ==
    /\ Len(hist) < MaxCalls
    /\ LET r == CreateModeldir(modeldir, overwrite, fs)
       IN  /\ fs' = r.fs
           /\ hist' = Append(hist, [outcome |-> r.outcome, before |-> fs, after |-> r.fs])
    /\ UNCHANGED <<modeldir, overwrite, fs0, trainVars, lossVars, raceVars>>

NextDir == CallCreateModeldir

SpecDir == InitDir /\ [][NextDir]_vars

\* C1: create_modeldir raises exactly when modeldir is unset or the directory
\* exists with overwrite disabled; an error leaves the filesystem as it was and
\* every other call returns normally.
C1_ErrorCases ==
    \A i \in 1..Len(hist) :
        LET h == hist[i]
        IN  /\ h.outcome \in {"ok", "ValueError"}
            /\ (h.outcome = "ValueError") <=>
                  (modeldir = None \/ (h.before.exists /\ ~overwrite))
            /\ h.outcome = "ValueError" => h.after = h.before

C1_Witness ==
    /\ Len(hist) >= 1
    /\ modeldir # None /\ ~overwrite
    /\ hist[1].before = Dir({"best_model", "log.csv"})
    /\ hist[1].outcome = "ValueError"
    /\ fs = Dir({"best_model", "log.csv"})

\* C2: with overwrite set, a call on an existing directory, whatever it holds,
\* returns with an empty directory at the path; and after every successful
\* return the directory exists.
C2_FreshEmptyDirectory ==
    \A i \in 1..Len(hist) :
        LET h == hist[i]
        IN  /\ (modeldir # None /\ overwrite /\ h.before.exists) =>
                  (h.outcome = "ok" /\ h.after = Dir({}))
            /\ h.outcome = "ok" => h.after.exists

C2_Witness ==
    /\ Len(hist) >= 1
    /\ overwrite
    /\ hist[1].before = Dir(OldFiles)
    /\ hist[1].outcome = "ok"
    /\ fs = Dir({})

\* C3 (as stated): with modeldir set, a second call in succession has the
\* outcome of the first and leaves the directory the first left.
C3_Idempotent ==
    (modeldir # None /\ Len(hist) >= 2) =>
        /\ hist[2].outcome = hist[1].outcome
        /\ hist[2].after = hist[1].after

\* C3 (amended): a repeated call always leaves the directory the call before
\* left, and has the outcome of the call before except for the second call on
\* a directory that was absent with overwrite disabled: the first call creates
\* it and the second raises.
C3_IdempotentButFirstCreate ==
    modeldir # None =>
        \A i \in 2..Len(hist) :
            /\ hist[i].after = hist[i - 1].after
            /\ IF i = 2 /\ ~fs0.exists /\ ~overwrite
               THEN hist[1].outcome = "ok" /\ hist[2].outcome = "ValueError"
               ELSE hist[i].outcome = hist[i - 1].outcome

C3_Witness ==
    /\ modeldir # None /\ ~overwrite
    /\ ~fs0.exists
    /\ Len(hist) = 2
    /\ hist[2].outcome = "ValueError"
    /\ fs = Dir({})

----------------------------------------------------------------------------
(* The property map and the lists derived from it *)

\* Python None where a dict of statistics may stand (cfg: mean = None).
NoneStat == [none |-> TRUE]

EmptyDict == [k \in {} |-> k]

PropertyNames == {"energy", "forces", "dipole_moment", "polarizability"}

\* The dataset column get_property_map gives a property that has a target.
ColumnOf ==
    [energy |-> "energy_U0", forces |-> "forces_col",
     dipole_moment |-> "dipole_col", polarizability |-> "polar_col"]

MaxProps == 3

Distinct(s) == \A i, j \in 1..Len(s) : i # j => s[i].p # s[j].p

\* One item of property_map.items(): a property with its target or None.
Items ==
    UNION { { [p |-> q, tgt |-> None], [p |-> q, tgt |-> ColumnOf[q]] } :
            q \in PropertyNames }

\* property_map.items(): every insertion order of every choice of properties.
PropertyMaps ==
    UNION { { s \in [1..n -> Items] : Distinct(s) } : n \in 0..MaxProps }

Keys(pm) == { pm[i].p : i \in 1..Len(pm) }

\* property_map[p]
Lookup(pm, q) == pm[CHOOSE i \in 1..Len(pm) : pm[i].p = q].tgt

MapSeq(s, F(_)) == [i \in 1..Len(s) |-> F(s[i])]

HasTarget(item) == item.tgt # None

ItemKey(item) == item.p

\* props = [p for p, tgt in property_map.items() if tgt is not None]
Props(pm) == MapSeq(SelectSeq(pm, HasTarget), ItemKey)

ExcludedFromStats == {"polarizability", "dipole_moment"}

NotExcludedPolarizabilityOnly(q) == q # "polarizability"

\* p not in [Properties.polarizability, Properties.dipole_moment]
NotExcluded(q) == q \notin ExcludedFromStats

is_extensive_forces(prop) == prop \in {"energy", "forces"}

is_extensive(prop) == prop = "energy"

\* targets = [property_map[p] for p in props if p not in [...]]
Targets(pm, props) ==
    LET f == SelectSeq(props, NotExcluded)
    IN  [i \in 1..Len(f) |-> Lookup(pm, f[i])]

\* atomrefs = [atomrefs[p] for p in props if p not in [...]]
AtomrefList(table, props) ==
    LET f == SelectSeq(props, NotExcluded)
    IN  [i \in 1..Len(f) |-> table[f[i]]]

\* extensive = [is_extensive(p) for p in props if p not in [...]]
Extensive(props) ==
    LET f == SelectSeq(props, NotExcluded)
    IN  [i \in 1..Len(f) |-> is_extensive(f[i])]

\* data.get_atomref(tgt): the reference table of one dataset column.
GetAtomref(tgt) == [atomref_of |-> tgt]

\* atomrefs = {p: data.get_atomref(tgt) for p, tgt in items if tgt is not None}
PrepareDataAtomrefs(pm) ==
    [q \in Keys(SelectSeq(pm, HasTarget)) |-> GetAtomref(Lookup(pm, q))]

\* train_loader.get_statistics(targets, extensive, atomrefs): one tensor per
\* target, in the order of targets.
GetStatistics(targets, extensive, refs) ==
    [mean   |-> [i \in 1..Len(targets) |->
                    [form |-> "tensor", kind |-> "mean", of |-> targets[i]]],
     stddev |-> [i \in 1..Len(targets) |->
                    [form |-> "tensor", kind |-> "stddev", of |-> targets[i]]]]

\* m.detach().cpu().numpy().tolist()
ToList(m) == [m EXCEPT !.form = "list"]

Min(a, b) == IF a < b THEN a ELSE b

\* dict(zip(keys, vals)): pairs up to the shorter length, a later pair wins.
DictZip(keys, vals) ==
    LET n == Min(Len(keys), Len(vals))
    IN  [k \in { keys[i] : i \in 1..n } |->
            vals[CHOOSE i \in 1..n : keys[i] = k /\ \A j \in 1..n : keys[j] = k => j <= i]]

----------------------------------------------------------------------------
(* stats *)

NeedsStatisticsBothMissing(mean, stddev) == mean = NoneStat /\ stddev = NoneStat

\* if mean is None or stddev is None
NeedsStatistics(mean, stddev) == mean = NoneStat \/ stddev = NoneStat

\* stats(train_loader, atomrefs, property_map, mean, stddev, _config): the
\* _config it leaves, the pair it returns and the get_statistics calls it made.
Stats(table, pm, mean, stddev, cfg) ==
    LET props   == Props(pm)
        targets == Targets(pm, props)
        refs    == AtomrefList(table, props)
        ext     == Extensive(props)
    IN  IF Len(targets) > 0
        THEN IF NeedsStatistics(mean, stddev)
             THEN LET st == GetStatistics(targets, ext, refs)
                      c2 == [cfg EXCEPT
                               !.mean   = DictZip(props, MapSeq(st.mean, ToList)),
                               !.stddev = DictZip(props, MapSeq(st.stddev, ToList))]
                  IN  [config |-> c2, mean |-> c2.mean, stddev |-> c2.stddev,
                       calls |-> <<[targets |-> targets, extensive |-> ext,
                                    atomrefs |-> refs]>>]
             ELSE [config |-> cfg, mean |-> cfg.mean, stddev |-> cfg.stddev,
                   calls |-> <<>>]
        ELSE LET c2 == [cfg EXCEPT !.mean = EmptyDict, !.stddev = EmptyDict]
             IN  [config |-> c2, mean |-> c2.mean, stddev |-> c2.stddev,
                  calls |-> <<>>]

----------------------------------------------------------------------------
(* build_loss *)

\* Tensors of two elements; even entries keep the mean of squares integral.
Tensors == { <<0, 0>>, <<2, 0>>, <<2, 4>> }

TSub(a, b) == [i \in 1..Len(a) |-> a[i] - b[i]]

TSquare(a) == [i \in 1..Len(a) |-> a[i] * a[i]]

RECURSIVE TSum(_)
TSum(a) == IF a = <<>> THEN 0 ELSE Head(a) + TSum(Tail(a))

\* torch.mean
TMean(a) == TSum(a) \div Len(a)

LossStepScalesTotal(item, lt, b, r, acc) ==
    IF item.tgt # None
    THEN LET err_sq == TMean(TSquare(TSub(b[item.tgt], r[item.p])))
         IN  [value |-> IF item.p \in DOMAIN lt
                        THEN (acc.value + err_sq) * lt[item.p]
                        ELSE acc.value + err_sq,
              terms |-> Append(acc.terms, item.p)]
    ELSE acc

\* One pass of the loop body of loss_fn over an item of property_map.
LossStep(item, lt, b, r, acc) ==
    IF item.tgt # None
    THEN LET diff   == TSquare(TSub(b[item.tgt], r[item.p]))
             err_sq == TMean(diff)
             scaled == IF item.p \in DOMAIN lt THEN err_sq * lt[item.p] ELSE err_sq
         IN  [value |-> acc.value + scaled, terms |-> Append(acc.terms, item.p)]
    ELSE acc

RECURSIVE LossLoop(_, _, _, _, _, _)
LossLoop(pm, lt, b, r, i, acc) ==
    IF i > Len(pm) THEN acc
    ELSE LossLoop(pm, lt, b, r, i + 1, LossStep(pm[i], lt, b, r, acc))

\* loss_fn(batch, result) of build_loss(property_map, loss_tradeoff): the value
\* returned and the properties whose term was added, in order.
LossFn(pm, lt, b, r) == LossLoop(pm, lt, b, r, 1, [value |-> 0, terms |-> <<>>])

----------------------------------------------------------------------------
(* config.yaml *)

YamlNode(v) == IF v = NoneStat THEN [null |-> TRUE] ELSE [mapping |-> v]

\* yaml.dump(_config, f, default_flow_style=False)
YamlDump(cfg) == [mean |-> YamlNode(cfg.mean), stddev |-> YamlNode(cfg.stddev)]

YamlValue(node) == IF node = [null |-> TRUE] THEN NoneStat ELSE node.mapping

\* What a reader of the document gets back.
YamlLoad(doc) == [mean |-> YamlValue(doc.mean), stddev |-> YamlValue(doc.stddev)]

NoFile == [absent |-> TRUE]

OldFile == [old |-> TRUE]

\* mean / stddev as a configuration may supply them.
ConfigMean == [k \in {"energy"} |-> [form |-> "list", kind |-> "mean", of |-> "config"]]

ConfigStddev == [k \in {"energy"} |-> [form |-> "list", kind |-> "stddev", of |-> "config"]]

----------------------------------------------------------------------------
(* Spec: one run of the train command *)

TrainFsStates == { NoDir, Dir({}), Dir({"config.yaml", "best_model"}) }

Init ==
    /\ modeldir \in {None, ModelPath}
    /\ overwrite \in BOOLEAN
    /\ fs \in TrainFsStates
    /\ property_map \in PropertyMaps
    /\ config \in [mean : {NoneStat, ConfigMean}, stddev : {NoneStat, ConfigStddev}]
    /\ yaml = [content |-> IF "config.yaml" \in fs.entries THEN OldFile ELSE NoFile,
               writes |-> 0]
    /\ pc = "create_modeldir"
    /\ atomrefs = EmptyDict
    /\ loaderCalls = <<>>
    /\ resolved = NoneStat
    /\ model_properties = <<>>
    /\ loss_tradeoff = EmptyDict
    /\ batch = EmptyDict
    /\ result = EmptyDict
    /\ loss = [value |-> 0, terms |-> <<>>]
    /\ dirIdle /\ raceIdle

\* train: create_modeldir()
TrainCreateModeldir ==
    /\ pc = "create_modeldir"
    /\ LET r == CreateModeldir(modeldir, overwrite, fs)
       IN  /\ fs' = r.fs
           /\ yaml' = [yaml EXCEPT !.content =
                          IF "config.yaml" \in r.fs.entries THEN @ ELSE NoFile]
           /\ pc' = IF r.outcome = "ok" THEN "save_config" ELSE "failed"
    /\ UNCHANGED <<modeldir, overwrite, property_map, config, atomrefs, loaderCalls,
                   resolved, model_properties, dirVars, lossVars, raceVars>>

\* train: save_config()
SaveConfig ==
    /\ pc = "save_config"
    /\ IF PathExists(fs)
       THEN /\ fs' = [fs EXCEPT !.entries = @ \cup {"config.yaml"}]
            /\ yaml' = [content |-> YamlDump(config), writes |-> yaml.writes + 1]
            /\ pc' = "prepare_data"
       ELSE /\ pc' = "failed"
            /\ UNCHANGED <<fs, yaml>>
    /\ UNCHANGED <<modeldir, overwrite, property_map, config, atomrefs, loaderCalls,
                   resolved, model_properties, dirVars, lossVars, raceVars>>

\* train: prepare_data(...)
PrepareData ==
    /\ pc = "prepare_data"
    /\ atomrefs' = PrepareDataAtomrefs(property_map)
    /\ pc' = "stats"
    /\ UNCHANGED <<modeldir, overwrite, fs, property_map, config, yaml, loaderCalls,
                   resolved, model_properties, dirVars, lossVars, raceVars>>

\* train: mean, stddev = stats(train_loader, atomrefs, property_map)
StatsStep ==
    /\ pc = "stats"
    /\ LET r == Stats(atomrefs, property_map, config.mean, config.stddev, config)
       IN  /\ config' = r.config
           /\ resolved' = [mean |-> r.mean, stddev |-> r.stddev]
           /\ loaderCalls' = loaderCalls \o r.calls
    /\ pc' = "build_model"
    /\ UNCHANGED <<modeldir, overwrite, fs, property_map, yaml, atomrefs,
                   model_properties, dirVars, lossVars, raceVars>>

\* train: model_properties = [p for p, tgt in property_map.items() if tgt is not None]
BuildModel ==
    /\ pc = "build_model"
    /\ model_properties' = Props(property_map)
    /\ pc' = "training"
    /\ UNCHANGED <<modeldir, overwrite, fs, property_map, config, yaml, atomrefs,
                   loaderCalls, resolved, dirVars, lossVars, raceVars>>

\* train: build_loss and trainer.train, which evaluates loss_fn on a batch.
Training ==
    /\ pc = "training"
    /\ \E t \in Tensors :
         /\ batch' = [c \in { property_map[i].tgt : i \in 1..Len(property_map) } \ {None}
                        |-> <<0, 0>>]
         /\ result' = [q \in Keys(SelectSeq(property_map, HasTarget)) |-> t]
         /\ loss' = LossFn(property_map, loss_tradeoff, batch', result')
    /\ pc' = "done"
    /\ UNCHANGED <<modeldir, overwrite, fs, property_map, config, yaml, atomrefs,
                   loaderCalls, resolved, model_properties, loss_tradeoff,
                   dirVars, raceVars>>

Next ==
    \/ TrainCreateModeldir
    \/ SaveConfig
    \/ PrepareData
    \/ StatsStep
    \/ BuildModel
    \/ Training

Spec == Init /\ [][Next]_vars

----------------------------------------------------------------------------
(* Properties of the train run *)

Range(s) == { s[i] : i \in 1..Len(s) }

\* The properties of the map that have a target, read off the map itself.
WithTarget(pm) == { pm[i].p : i \in { j \in 1..Len(pm) : pm[j].tgt # None } }

StatsSet(pm) == WithTarget(pm) \ {"polarizability", "dipole_moment"}

AfterStats == pc \in {"build_model", "training", "done"}

\* C4 (as stated): at the end of a train run config.yaml has been written
\* exactly once and, whenever stats computed or reset mean/stddev, the mean and
\* stddev it holds are the ones stats returned.
C4_YamlHoldsResolved ==
    pc = "done" =>
        /\ yaml.writes = 1
        /\ (Len(loaderCalls) > 0 \/ StatsSet(property_map) = {}) =>
              /\ YamlLoad(yaml.content).mean = resolved.mean
              /\ YamlLoad(yaml.content).stddev = resolved.stddev

\* C6: the selections are independent filters: the targets handed to
\* get_statistics are those of the properties with a target other than
\* polarizability and dipole moment, while the loss terms, the keys of the
\* atomref table and model_properties are all properties with a target.
C6_SelectionSets ==
    /\ \A i \in 1..Len(loaderCalls) :
          Range(loaderCalls[i].targets) =
              { Lookup(property_map, q) : q \in StatsSet(property_map) }
    /\ pc \in {"stats", "build_model", "training", "done"} =>
          DOMAIN atomrefs = WithTarget(property_map)
    /\ pc \in {"training", "done"} =>
          /\ Range(model_properties) = WithTarget(property_map)
          /\ Len(model_properties) = Cardinality(WithTarget(property_map))
    /\ pc = "done" =>
          /\ Range(loss.terms) = WithTarget(property_map)
          /\ Len(loss.terms) = Cardinality(WithTarget(property_map))
          /\ \A q \in WithTarget(property_map) \cap {"polarizability", "dipole_moment"} :
                /\ q \in Range(loss.terms) /\ q \in DOMAIN atomrefs
                /\ \A i \in 1..Len(loaderCalls) :
                      Lookup(property_map, q) \notin Range(loaderCalls[i].targets)

C6_Witness ==
    /\ pc = "done"
    /\ Len(loaderCalls) = 1
    /\ "dipole_moment" \in WithTarget(property_map)
    /\ "energy" \in WithTarget(property_map)
    /\ \E i \in 1..Len(property_map) : property_map[i].tgt = None

\* The list form of what get_statistics computes for one target.
Computed(kind, tgt) == [form |-> "list", kind |-> kind, of |-> tgt]

ValuesOf(d) == { d[k] : k \in DOMAIN d }

\* C7: stats by case: nothing to normalise: mean and stddev become empty
\* mappings, supplied or not; both supplied: the loader is not asked and the
\* supplied values are returned; one missing: the loader is asked once and both
\* are replaced by the computed values.
C7_StatsCases ==
    [][ (pc = "stats" /\ pc' = "build_model") =>
          LET filtered == StatsSet(property_map)
              supplied == config.mean # NoneStat /\ config.stddev # NoneStat
          IN  /\ filtered = {} =>
                    /\ config'.mean = EmptyDict /\ config'.stddev = EmptyDict
                    /\ resolved' = [mean |-> EmptyDict, stddev |-> EmptyDict]
                    /\ loaderCalls' = loaderCalls
              /\ (filtered # {} /\ supplied) =>
                    /\ loaderCalls' = loaderCalls
                    /\ config' = config
                    /\ resolved' = [mean |-> config.mean, stddev |-> config.stddev]
              /\ (filtered # {} /\ ~supplied) =>
                    /\ Len(loaderCalls') = Len(loaderCalls) + 1
                    /\ ValuesOf(resolved'.mean) =
                          { Computed("mean", Lookup(property_map, q)) : q \in filtered }
                    /\ ValuesOf(resolved'.stddev) =
                          { Computed("stddev", Lookup(property_map, q)) : q \in filtered }
                    /\ Cardinality(DOMAIN resolved'.mean) = Cardinality(filtered)
                    /\ Cardinality(DOMAIN resolved'.stddev) = Cardinality(filtered)
                    /\ config'.mean = resolved'.mean
                    /\ config'.stddev = resolved'.stddev
      ]_vars

\* stats has asked the loader although the configuration supplied the mean.
C7_Witness ==
    /\ pc = "build_model"
    /\ Len(loaderCalls) = 1
    /\ yaml.content = YamlDump([mean |-> ConfigMean, stddev |-> NoneStat])
    /\ resolved.mean # ConfigMean

\* C8: in the get_statistics call targets, atomrefs and extensive have one
\* length and one order, and position i is flagged extensive exactly when the
\* property whose target stands at i is energy.
C8_ExtensiveOnlyEnergy ==
    \A c \in 1..Len(loaderCalls) :
        LET call == loaderCalls[c]
        IN  /\ Len(call.targets) = Len(call.atomrefs)
            /\ Len(call.targets) = Len(call.extensive)
            /\ \A i \in 1..Len(call.targets) :
                  \E q \in Keys(property_map) :
                      /\ Lookup(property_map, q) = call.targets[i]
                      /\ call.atomrefs[i] = atomrefs[q]
                      /\ call.extensive[i] = (q = "energy")

C8_Witness ==
    /\ Len(loaderCalls) = 1
    /\ Len(loaderCalls[1].targets) >= 2
    /\ TRUE \in Range(loaderCalls[1].extensive)
    /\ FALSE \in Range(loaderCalls[1].extensive)

\* C9 (as stated): when stats asks the loader, the resolved mean and stddev
\* are keyed by exactly the properties that passed the statistics filter and
\* each key holds the statistic of its own target.
C9_ResolvedKeyedByFiltered ==
    (AfterStats /\ Len(loaderCalls) > 0) =>
        /\ DOMAIN resolved.mean = StatsSet(property_map)
        /\ DOMAIN resolved.stddev = StatsSet(property_map)
        /\ \A q \in DOMAIN resolved.mean :
              resolved.mean[q] = Computed("mean", Lookup(property_map, q))
        /\ \A q \in DOMAIN resolved.stddev :
              resolved.stddev[q] = Computed("stddev", Lookup(property_map, q))

----------------------------------------------------------------------------
(* SpecLoss: loss_fn applied to one batch and one model output *)

MaxLossProps == 2

LossProperties == {"energy", "forces", "dipole_moment"}

LossMaps ==
    { s \in PropertyMaps :
        Len(s) <= MaxLossProps /\ \A i \in 1..Len(s) : s[i].p \in LossProperties }

\* loss_tradeoff tables: any weights for any of these properties.
Tradeoffs ==
    UNION { [S -> {2, 3}] : S \in SUBSET {"energy", "forces"} }

BatchTensors == { <<0, 0>>, <<2, 4>> }

InitLoss ==
    /\ property_map \in LossMaps
    /\ loss_tradeoff \in Tradeoffs
    /\ batch \in [{ Lookup(property_map, q) : q \in WithTarget(property_map) }
                    -> BatchTensors]
    /\ result \in [WithTarget(property_map) -> Tensors]
    /\ loss = [value |-> 0, terms |-> <<>>]
    /\ pc = "loss_fn"
    /\ modeldir = None /\ overwrite = TRUE /\ fs = NoDir
    /\ config = Idle /\ yaml = Idle /\ atomrefs = Idle /\ loaderCalls = <<>>
    /\ resolved = Idle /\ model_properties = <<>>
    /\ dirIdle /\ raceIdle

\* loss_fn(batch, result)
EvaluateLoss ==
    /\ pc = "loss_fn"
    /\ loss' = LossFn(property_map, loss_tradeoff, batch, result)
    /\ pc' = "returned"
    /\ UNCHANGED <<modeldir, overwrite, fs, property_map, config, yaml, atomrefs,
                   loaderCalls, resolved, model_properties, loss_tradeoff, batch,
                   result, dirVars, raceVars>>

NextLoss == EvaluateLoss

SpecLoss == InitLoss /\ [][NextLoss]_vars

\* Mean squared error of two tensors, by its definition.
MSE(a, b) ==
    LET sq[i \in 0..Len(a)] ==
            IF i = 0 THEN 0 ELSE sq[i - 1] + (a[i] - b[i]) * (a[i] - b[i])
    IN  sq[Len(a)] \div Len(a)

Weight(lt, q) == IF q \in DOMAIN lt THEN lt[q] ELSE 1

RECURSIVE SumOver(_, _, _, _, _)
SumOver(S, pm, lt, b, r) ==
    IF S = {} THEN 0
    ELSE LET q == CHOOSE x \in S : TRUE
         IN  Weight(lt, q) * MSE(b[Lookup(pm, q)], r[q])
             + SumOver(S \ {q}, pm, lt, b, r)

\* C5: the loss is the sum, over exactly the properties with a target, of the
\* tradeoff weight (1 when the property has none) times the mean squared error
\* of target and prediction; it is zero when no property has a target.
C5_LossIsWeightedSum ==
    pc = "returned" =>
        /\ loss.value = SumOver(WithTarget(property_map), property_map,
                                loss_tradeoff, batch, result)
        /\ WithTarget(property_map) = {} => loss.value = 0

C5_Witness ==
    /\ pc = "returned"
    /\ WithTarget(property_map) = {"forces", "dipole_moment"}
    /\ DOMAIN loss_tradeoff = {"energy", "forces"}
    /\ MSE(batch["forces_col"], result["forces"]) > 0
    /\ MSE(batch["dipole_col"], result["dipole_moment"]) > 0

----------------------------------------------------------------------------
(* SpecRace: two train runs on one modeldir, interleaved between os calls *)

Runs == {1, 2}

Other(r) == 3 - r

InProgress(r) == rpc[r] \notin {"done", "ValueError", "OSError"}

InitRace ==
    /\ modeldir = ModelPath
    /\ rcfg \in [Runs -> BOOLEAN]
    /\ overwrite = TRUE
    /\ fs \in FsStates
    /\ rpc = [r \in Runs |-> "exists_no_overwrite"]
    /\ owner = [dir |-> 0, yaml |-> 0]
    /\ clobbered = {}
    /\ trainIdle /\ lossIdle /\ dirIdle

raceRest == <<modeldir, overwrite, rcfg, dirVars, trainVars, lossVars>>

\* if os.path.exists(modeldir) and not overwrite: raise ValueError
RaceExistsNoOverwrite(r) ==
    /\ rpc[r] = "exists_no_overwrite"
    /\ rpc' = [rpc EXCEPT ![r] = IF PathExists(fs) /\ ~rcfg[r]
                                 THEN "ValueError" ELSE "exists_overwrite"]
    /\ UNCHANGED <<fs, owner, clobbered, raceRest>>

\* if os.path.exists(modeldir) and overwrite:
RaceExistsOverwrite(r) ==
    /\ rpc[r] = "exists_overwrite"
    /\ rpc' = [rpc EXCEPT ![r] = IF PathExists(fs) /\ rcfg[r]
                                 THEN "rmtree" ELSE "not_exists"]
    /\ UNCHANGED <<fs, owner, clobbered, raceRest>>

\* rmtree(modeldir); FileNotFoundError when the path is gone by now
RaceRmtree(r) ==
    /\ rpc[r] = "rmtree"
    /\ IF PathExists(fs)
       THEN /\ fs' = Rmtree(fs)
            /\ owner' = [dir |-> 0, yaml |-> 0]
            /\ clobbered' =
                  IF owner.dir = Other(r) /\ InProgress(Other(r))
                  THEN clobbered \cup {Other(r)} ELSE clobbered
            /\ rpc' = [rpc EXCEPT ![r] = "not_exists"]
       ELSE /\ rpc' = [rpc EXCEPT ![r] = "OSError"]
            /\ UNCHANGED <<fs, owner, clobbered>>
    /\ UNCHANGED raceRest

\* if not os.path.exists(modeldir):
RaceNotExists(r) ==
    /\ rpc[r] = "not_exists"
    /\ rpc' = [rpc EXCEPT ![r] = IF ~PathExists(fs) THEN "makedirs" ELSE "save_config"]
    /\ UNCHANGED <<fs, owner, clobbered, raceRest>>

\* os.makedirs(modeldir); FileExistsError when the path is there by now
RaceMakedirs(r) ==
    /\ rpc[r] = "makedirs"
    /\ IF ~PathExists(fs)
       THEN /\ fs' = Makedirs(fs)
            /\ owner' = [dir |-> r, yaml |-> 0]
            /\ rpc' = [rpc EXCEPT ![r] = "save_config"]
       ELSE /\ rpc' = [rpc EXCEPT ![r] = "OSError"]
            /\ UNCHANGED <<fs, owner>>
    /\ UNCHANGED <<clobbered, raceRest>>

\* save_config: open(modeldir/config.yaml, 'w'); FileNotFoundError without the
\* directory
RaceSaveConfig(r) ==
    /\ rpc[r] = "save_config"
    /\ IF PathExists(fs)
       THEN /\ fs' = [fs EXCEPT !.entries = @ \cup {"config.yaml"}]
            /\ owner' = [owner EXCEPT !.yaml = r]
            /\ rpc' = [rpc EXCEPT ![r] = "training"]
       ELSE /\ rpc' = [rpc EXCEPT ![r] = "OSError"]
            /\ UNCHANGED <<fs, owner>>
    /\ UNCHANGED <<clobbered, raceRest>>

\* prepare_data ... trainer.train(device): the rest of the run
RaceTraining(r) ==
    /\ rpc[r] = "training"
    /\ rpc' = [rpc EXCEPT ![r] = "done"]
    /\ UNCHANGED <<fs, owner, clobbered, raceRest>>

NextRace ==
    \E r \in Runs :
        \/ RaceExistsNoOverwrite(r)
        \/ RaceExistsOverwrite(r)
        \/ RaceRmtree(r)
        \/ RaceNotExists(r)
        \/ RaceMakedirs(r)
        \/ RaceSaveConfig(r)
        \/ RaceTraining(r)

SpecRace == InitRace /\ [][NextRace]_vars

\* C10 (as stated): with overwrite set in both runs, no run's directory is
\* removed by the other run's create_modeldir while it is in progress, and no
\* create_modeldir or save_config step fails with an OS error.
C10_NoRace ==
    (\A r \in Runs : rcfg[r]) =>
        /\ clobbered = {}
        /\ \A r \in Runs : rpc[r] # "OSError"

====
